---- MODULE Spec2Model ----
(***************************************************************************)
(* Session migration of the cursor-history tool (src/core/migrate.ts):     *)
(* migrateSession, migrateSessions and migrateWorkspace over the per-      *)
(* workspace stores (ItemTable composer array) and the global content      *)
(* store (cursorDiskKV).  One process, synchronous; a step of the model is *)
(* the code between two blocking database writes.                          *)
(***************************************************************************)
EXTENDS Integers, Sequences, FiniteSets, TLC

(***************************************************************************)
(* Bounds of the model.                                                    *)
(***************************************************************************)
\* sessions that exist before any migration
NumSessions == 3
\* longest identifier list handed to migrateSessions
MaxBatch == 3
\* top-level calls in one behaviour of Spec
MaxCalls == 1
\* top-level calls in one behaviour of SpecSeq
MaxSeqCalls == 2
\* longest identifier list handed to migrateSessions in SpecSeq
MaxSeqBatch == 2

(***************************************************************************)
(* Identifiers.  Every identifier is a pair <<kind, n>>: "s" a session     *)
(* that exists initially, "b" a bubble that exists initially, "g" an       *)
(* identifier made by generateSessionId, "x" an identifier of no session.  *)
(***************************************************************************)
SessionIds == {<<"s", n>> : n \in 1..NumSessions}
NoSuchId == <<"x", 0>>
B1 == <<"b", 1>>
B2 == <<"b", 2>>

\* src/core/migrate.ts:37-44.  Math.random gives 122 random bits; the model
\* takes the n-th generated identifier to differ from every other identifier.
generateSessionId(n) == <<"g", n>>

(***************************************************************************)
(* Paths are sequences of one-character strings.                           *)
(***************************************************************************)
HomeDir == <<"/", "h">>
PA == <<"/", "a">>
\* a folder of the home directory
PB == <<"/", "h", "/", "b">>
\* a path of which PA is a proper prefix
PC == <<"/", "a", "c">>
PZ == <<"/", "z">>

Ws == {"w1", "w2", "w3"}
\* workspace.json of each workspace directory (readWorkspaceJson)
WsPath == [w \in Ws |-> CASE w = "w1" -> PA [] w = "w2" -> PB [] OTHER -> PC]

RECURSIVE StripTrailing(_, _)
\* while (normalized.length > 1 && normalized.endsWith(c)) slice(0, -1)
StripTrailing(p, c) ==
  IF Len(p) > 1 /\ p[Len(p)] = c THEN StripTrailing(SubSeq(p, 1, Len(p) - 1), c) ELSE p

RECURSIVE CollapseSlashes(_)
\* node:path normalize on posix: runs of "/" become one "/"
CollapseSlashes(p) ==
  IF Len(p) < 2 THEN p
  ELSE IF p[1] = "/" /\ p[2] = "/" THEN CollapseSlashes(Tail(p))
  ELSE <<p[1]>> \o CollapseSlashes(Tail(p))

\* node:path join(homedir(), rest)
JoinHome(rest) == IF rest = <<>> THEN HomeDir ELSE CollapseSlashes(HomeDir \o <<"/">> \o rest)

normalizePathMut(filePath) == filePath
normalizePath(filePath) ==
  LET expanded == IF Len(filePath) > 0 /\ filePath[1] = "~"
                  THEN JoinHome(Tail(filePath)) ELSE filePath
  IN StripTrailing(StripTrailing(expanded, "/"), "\\")

\* process.platform is not win32: the comparison is case-sensitive
pathsEqual(path1, path2) == normalizePath(path1) = normalizePath(path2)

(***************************************************************************)
(* Records and stores.                                                     *)
(***************************************************************************)
\* a session object of the composer array; name stands for the whole payload
Rec(id, name) == [composerId |-> id, name |-> name]

Ids(composers) == {composers[k].composerId : k \in 1..Len(composers)}

\* Array.prototype.findIndex((s) => s.composerId === sessionId); 0 stands for -1
findIndex(composers, sessionId) ==
  IF sessionId \in Ids(composers)
  THEN CHOOSE k \in 1..Len(composers) :
         /\ composers[k].composerId = sessionId
         /\ \A j \in 1..(k - 1) : composers[j].composerId # sessionId
  ELSE 0

RemoveAtMut(composers, i) == composers
\* sourceResult.composers.filter((_, i) => i !== sessionIndex)
RemoveAt(composers, i) ==
  [k \in 1..(Len(composers) - 1) |-> IF k < i THEN composers[k] ELSE composers[k + 1]]

AppendSessionMut(destComposers, session) == <<session>>
\* [...destComposers, session]
AppendSession(destComposers, session) == Append(destComposers, session)

CopySessionBare(session, newSessionId) == Rec(newSessionId, newSessionId)
CopySessionMut(session, newSessionId) == session
\* JSON.parse(JSON.stringify(sessionToMigrate)); copiedSession.composerId = newSessionId
CopySession(session, newSessionId) == [session EXCEPT !.composerId = newSessionId]

\* rawData of a store that was never read (undefined), and the raw object
\* written when no rawData is handed over
NoRaw == <<"raw", "none">>
NewRaw == <<"raw", "new">>

EmptyStore(fmt) ==
  [exists |-> FALSE, isNewFormat |-> fmt, rawData |-> NoRaw, composers |-> <<>>]

\* getComposerData(db): the array, its format flag and the raw stored object,
\* or null (ok = FALSE)
getComposerData(st, w) ==
  IF st[w].exists
  THEN [ok |-> TRUE, composers |-> st[w].composers, isNewFormat |-> st[w].isNewFormat,
        rawData |-> st[w].rawData]
  ELSE [ok |-> FALSE, composers |-> <<>>, isNewFormat |-> FALSE, rawData |-> NoRaw]

\* updateComposerData(db, composers, isNewFormat, rawData): replaces the whole
\* array under the key of the format, inside the raw object handed over
updateComposerData(st, w, composers, isNewFormat, rawData) ==
  [st EXCEPT ![w] = [exists |-> TRUE, isNewFormat |-> isNewFormat,
                     rawData |-> IF rawData = NoRaw THEN NewRaw ELSE rawData,
                     composers |-> composers]]

destShapeMut(sourceResult, destResult) ==
  [isNewFormat |-> sourceResult.isNewFormat, rawData |-> sourceResult.rawData]
\* migrate.ts:241-242 and 272-273:
\* destResult?.isNewFormat ?? sourceResult.isNewFormat, destResult?.rawData
destShape(sourceResult, destResult) ==
  [isNewFormat |-> IF destResult.ok THEN destResult.isNewFormat ELSE sourceResult.isNewFormat,
   rawData |-> IF destResult.ok THEN destResult.rawData ELSE NoRaw]

\* findWorkspaces(): only workspaces whose session count is > 0 are listed
sessionCount(st, w) == IF st[w].exists THEN Len(st[w].composers) ELSE 0

findWorkspacesMut(st) == Ws
findWorkspaces(st) == {w \in Ws : sessionCount(st, w) > 0}

findWorkspaceByPathMut(st, folderPath) ==
  LET m == {w \in findWorkspaces(st) :
              /\ Len(WsPath[w]) <= Len(folderPath)
              /\ SubSeq(folderPath, 1, Len(WsPath[w])) = WsPath[w]}
  IN {w \in m : \A v \in m : Len(WsPath[w]) <= Len(WsPath[v])}
\* findWorkspaceByPath: findWorkspaces().find(w => w.path === folderPath); a set
\* with at most one element, empty for null
findWorkspaceByPath(st, folderPath) == {w \in findWorkspaces(st) : WsPath[w] = folderPath}

\* findWorkspaceForSession: the listed workspaces whose array holds the session
findWorkspaceForSession(st, sessionId) ==
  {w \in findWorkspaces(st) : sessionId \in Ids(st[w].composers)}

(***************************************************************************)
(* The global content store (cursorDiskKV of globalStorage/state.vscdb):   *)
(* composer[id] is the value under composerData:<id>, bubble[<<id, b>>]    *)
(* the value under bubbleId:<id>:<b>.                                      *)
(***************************************************************************)
EmptyMap == [x \in {} |-> x]
EmptyKv == [composer |-> EmptyMap, bubble |-> EmptyMap]

Bubble(b) == [bubbleId |-> b, text |-> b]
Composer(id, headers) == [composerId |-> id, fullConversationHeadersOnly |-> headers]

\* the rows of SELECT key, value ... WHERE key LIKE 'bubbleId:<id>:%'
bubbleRows(store, composerId) == {key \in DOMAIN store.bubble : key[1] = composerId}

RECURSIVE SetToSeq(_)
\* the order in which the SELECT hands the rows over: fixed, by key
SetToSeq(S) ==
  IF S = {} THEN <<>>
  ELSE LET x == CHOOSE y \in S : TRUE IN <<x>> \o SetToSeq(S \ {x})

\* the content of session s1 before any migration: no global database; two
\* bubbles of which one is in the header list; a header without its bubble;
\* a bubble and no composerData entry
KvChoices ==
  LET s == <<"s", 1>> IN
  { [dbExists |-> FALSE, store |-> EmptyKv],
    [dbExists |-> TRUE,
     store |-> [composer |-> (s :> Composer(s, <<B1>>)),
                bubble |-> (<<s, B1>> :> Bubble(B1)) @@ (<<s, B2>> :> Bubble(B2))]],
    [dbExists |-> TRUE,
     store |-> [composer |-> (s :> Composer(s, <<B1, B2>>)),
                bubble |-> (<<s, B1>> :> Bubble(B1))]],
    [dbExists |-> TRUE,
     store |-> [composer |-> EmptyMap,
                bubble |-> (<<s, B1>> :> Bubble(B1))]] }

(***************************************************************************)
(* Results.                                                                *)
(***************************************************************************)
Unknown == <<"u", "n", "k", "n", "o", "w", "n">>
NoPath == <<>>

\* SessionMigrationResult; newSessionId = NoSuchId stands for an absent field,
\* error = "none" for an absent error
Result(success, sessionId, sourceWorkspace, destinationWorkspace, mode, newSessionId, error, dryRun) ==
  [success |-> success, sessionId |-> sessionId, sourceWorkspace |-> sourceWorkspace,
   destinationWorkspace |-> destinationWorkspace, mode |-> mode,
   newSessionId |-> newSessionId, error |-> error, dryRun |-> dryRun]

CountOk(rs) == Cardinality({k \in 1..Len(rs) : rs[k].success})
CountFailedMut(rs) == 0
CountFailed(rs) == Cardinality({k \in 1..Len(rs) : ~rs[k].success})

NoAgg == [valid |-> FALSE]
\* WorkspaceMigrationResult, migrate.ts:411-425
Aggregate(rs, source, destination, mode, dryRun) ==
  [valid |-> TRUE, success |-> CountFailed(rs) = 0, source |-> source,
   destination |-> destination, mode |-> mode, totalSessions |-> Len(rs),
   successCount |-> CountOk(rs), failureCount |-> CountFailed(rs),
   results |-> rs, dryRun |-> dryRun]

(***************************************************************************)
(* State.                                                                  *)
(***************************************************************************)
VARIABLES
  stores,       \* per workspace: the composer array of its state.vscdb
  kv,           \* the global content store
  dbExists,     \* existsSync(globalDbPath)
  gen,          \* identifiers generated so far
  pc,           \* where the process is: idle, validate, open, writeSrc, ...
  req,          \* the options of the running (or last) top-level call
  idx,          \* position of migrateSessions' loop in req.sessionIds
  results,      \* the results collected by the running (or last) call
  thrown,       \* the error the last call threw, "none" if it returned
  agg,          \* the WorkspaceMigrationResult of the last migrateWorkspace
  loc,          \* the locals of the running migrateSession
  pre,          \* stores and kv when the top-level call began
  preS,         \* stores and kv when the running migrateSession began
  last,         \* the migrateSession that ended last: its result and its locals
                \* (preS still holds the stores and kv it began with)
  fault,        \* the kinds of I/O error met so far
  budget,       \* top-level calls that may still begin
  prev,         \* the call before this one, if it was a single move that succeeded
  cli,          \* the identifier input resolved by resolveSessionIdentifiers, and its outcome
  shown,        \* the messages and types handed to filterMessages, and what it returned
  norm          \* the path handed to normalizePath, and what it returned

vars == <<stores, kv, dbExists, gen, pc, req, idx, results, thrown, agg, loc, pre,
          preS, last, fault, budget, prev, cli, shown, norm>>

NoReq == [op |-> "none", sessionIds |-> <<>>, source |-> NoPath, destination |-> NoPath,
          mode |-> "move", dryRun |-> FALSE, force |-> FALSE]

NoResult == Result(FALSE, NoSuchId, NoPath, NoPath, "move", NoSuchId, "none", FALSE)

NoRead == [ok |-> FALSE, composers |-> <<>>, isNewFormat |-> FALSE, rawData |-> NoRaw]

NoLoc == [src |-> "w1", dst |-> "w1", sourceWorkspace |-> NoPath, normalizedDest |-> NoPath,
          sourceResult |-> NoRead, destResult |-> NoRead, sessionIndex |-> 0,
          session |-> Rec(NoSuchId, NoSuchId), newSessionId |-> NoSuchId,
          bubbleIdMap |-> EmptyMap, pending |-> <<>>, failedAt |-> "none",
          raced |-> FALSE]

NoLast == [valid |-> FALSE, result |-> NoResult, loc |-> NoLoc]

NoPrev == [valid |-> FALSE, sessionId |-> NoSuchId, src |-> "w1", dst |-> "w1",
           stores |-> [w \in Ws |-> EmptyStore(TRUE)]]

NoCli == [done |-> FALSE, input |-> <<>>, error |-> "none", token |-> <<>>, ids |-> <<>>]

NoShown == [done |-> FALSE, messages |-> <<>>, types |-> <<>>, out |-> <<>>]

NoNorm == [done |-> FALSE, path |-> <<>>, once |-> <<>>, twice |-> <<>>, other |-> <<>>,
           equal |-> FALSE]

\* isNewFormat of each workspace's array before any migration
InitFormat == [w \in Ws |-> w # "w2"]

\* the sessions of workspace w, in identifier order, when place says where each is
InitComposers(place, w) ==
  LET F[n \in 0..NumSessions] ==
        IF n = 0 THEN <<>>
        ELSE IF place[<<"s", n>>] = w THEN Append(F[n - 1], Rec(<<"s", n>>, <<"s", n>>))
        ELSE F[n - 1]
  IN F[NumSessions]

\* session identifiers are unique across all workspaces (specs/003 spec.md:189);
\* a workspace without sessions has no composer key yet
InitStores(place) ==
  [w \in Ws |->
     IF InitComposers(place, w) = <<>> THEN EmptyStore(InitFormat[w])
     ELSE [exists |-> TRUE, isNewFormat |-> InitFormat[w], rawData |-> <<"raw", w>>,
           composers |-> InitComposers(place, w)]]

WsIndex == [w \in Ws |-> CASE w = "w1" -> 1 [] w = "w2" -> 2 [] OTHER -> 3]

\* where the sessions are before any migration: any number of them in any
\* workspace, a later session never in an earlier workspace
Placements ==
  {place \in [SessionIds -> Ws] :
     \A i, j \in 1..NumSessions :
       i < j => WsIndex[place[<<"s", i>>]] <= WsIndex[place[<<"s", j>>]]}

InitWith(maxCalls, kvs) ==
  /\ \E place \in Placements : stores = InitStores(place)
  /\ \E k \in kvs : kv = k.store /\ dbExists = k.dbExists
  /\ gen = 0
  /\ pc = "idle"
  /\ req = NoReq
  /\ idx = 0
  /\ results = <<>>
  /\ thrown = "none"
  /\ agg = NoAgg
  /\ loc = NoLoc
  /\ pre = [stores |-> stores, kv |-> kv]
  /\ preS = [stores |-> stores, kv |-> kv]
  /\ last = NoLast
  /\ fault = {}
  /\ budget = maxCalls
  /\ prev = NoPrev
  /\ cli = NoCli
  /\ shown = NoShown
  /\ norm = NoNorm

Init == InitWith(MaxCalls, KvChoices)

(***************************************************************************)
(* How a migrateSession ends.                                              *)
(***************************************************************************)
AfterReturnMut(rs) ==
  IF rs[Len(rs)].success /\ Len(rs) < Len(req.sessionIds) THEN "validate" ELSE "idle"
\* migrate.ts:318-336: the loop goes on to the next identifier whatever the result
AfterReturn(rs) == IF Len(rs) < Len(req.sessionIds) THEN "validate" ELSE "idle"

\* migrateSession hands result r to its caller: migrate.ts:320-321 (batch),
\* 411-425 (workspace)
Return(r, l) ==
  /\ results' = Append(results, r)
  /\ last' = [valid |-> TRUE, result |-> r, loc |-> l]
  /\ loc' = l
  /\ pc' = AfterReturn(results')
  /\ idx' = IF pc' = "validate" THEN idx + 1 ELSE idx
  /\ agg' = IF pc' = "idle" /\ req.op = "workspace"
            THEN Aggregate(results', req.source, req.destination, req.mode, req.dryRun)
            ELSE agg
  /\ thrown' = thrown

\* migrateSession throws before its try block: the caller of a single
\* migrateSession sees the error; migrateSessions turns it into a result
\* (migrate.ts:322-333)
Throw(error, l) ==
  IF req.op = "session"
  THEN /\ thrown' = error
       /\ pc' = "idle"
       /\ loc' = l
       /\ last' = [valid |-> FALSE, result |-> NoResult, loc |-> l]
       /\ UNCHANGED <<results, idx, agg>>
  ELSE Return(Result(FALSE, req.sessionIds[idx], Unknown, req.destination, req.mode,
                     NoSuchId, error, req.dryRun), l)

FailedMut(error) ==
  Result(FALSE, req.sessionIds[idx], loc.sourceWorkspace, loc.normalizedDest, req.mode,
         loc.newSessionId, error, FALSE)
\* the catch of migrate.ts:291-302
Failed(error) ==
  Result(FALSE, req.sessionIds[idx], loc.sourceWorkspace, loc.normalizedDest, req.mode,
         NoSuchId, error, FALSE)

(***************************************************************************)
(* migrateSession, migrate.ts:167-303.                                     *)
(***************************************************************************)
isDryRunMut(options) == FALSE
\* migrate.ts:197: if (dryRun)
isDryRun(options) == options.dryRun

\* migrate.ts:171-206: locate source and destination, compare, dry run
Validate ==
  /\ pc = "validate"
  /\ preS' = [stores |-> stores, kv |-> kv]
  /\ LET sessionId == req.sessionIds[idx]
         normalizedDest == normalizePath(req.destination)
         sources == findWorkspaceForSession(stores, sessionId)
         dests == findWorkspaceByPath(stores, normalizedDest)
     IN IF sources = {}
        THEN Throw("SessionNotFoundError", [NoLoc EXCEPT !.normalizedDest = normalizedDest])
        ELSE \E s \in sources :
               LET l == [NoLoc EXCEPT !.src = s, !.sourceWorkspace = WsPath[s],
                                      !.normalizedDest = normalizedDest]
               IN IF pathsEqual(WsPath[s], normalizedDest)
                  THEN Throw("SameWorkspaceError", l)
                  ELSE IF dests = {}
                  THEN Throw("WorkspaceNotFoundError", l)
                  ELSE \E d \in dests :
                         IF isDryRun(req)
                         THEN Return(Result(TRUE, sessionId, WsPath[s], normalizedDest,
                                            req.mode, NoSuchId, "none", TRUE),
                                     [l EXCEPT !.dst = d])
                         ELSE /\ pc' = "open"
                              /\ loc' = [l EXCEPT !.dst = d]
                              /\ UNCHANGED <<results, idx, agg, thrown, last>>
  /\ UNCHANGED <<stores, kv, dbExists, gen, req, pre, fault, budget, prev, cli, shown, norm>>

\* migrate.ts:209-229 and 257: open both databases, read both arrays, find the
\* session; copy mode then generates the new session identifier
OpenAndRead ==
  /\ pc = "open"
  /\ LET sessionId == req.sessionIds[idx]
         sourceResult == getComposerData(stores, loc.src)
         destResult == getComposerData(stores, loc.dst)
         sessionIndex == findIndex(sourceResult.composers, sessionId)
     IN IF ~sourceResult.ok
        THEN Return(Failed("Error"), loc) /\ gen' = gen
        ELSE IF sessionIndex = 0
        THEN Return(Failed("SessionNotFoundError"), loc) /\ gen' = gen
        ELSE /\ loc' = [loc EXCEPT !.sourceResult = sourceResult, !.destResult = destResult,
                                   !.sessionIndex = sessionIndex,
                                   !.session = sourceResult.composers[sessionIndex],
                                   !.newSessionId = IF req.mode = "copy"
                                                    THEN generateSessionId(gen + 1)
                                                    ELSE NoSuchId]
             /\ gen' = IF req.mode = "copy" THEN gen + 1 ELSE gen
             /\ pc' = IF req.mode = "move" THEN "writeSrc" ELSE "copyComposer"
             /\ UNCHANGED <<results, idx, agg, thrown, last>>
  /\ UNCHANGED <<stores, kv, dbExists, req, pre, preS, fault, budget, prev, cli, shown, norm>>

OpenFailMut ==
  /\ pc = "open"
  /\ thrown' = "DatabaseLockedError"
  /\ pc' = "idle"
  /\ loc' = [loc EXCEPT !.failedAt = "open"]
  /\ last' = [valid |-> FALSE, result |-> NoResult, loc |-> loc']
  /\ fault' = fault \cup {"open"}
  /\ UNCHANGED <<stores, kv, dbExists, gen, req, idx, results, agg, pre, preS, budget, prev,
                 cli, shown, norm>>
\* openDatabaseReadWrite throws (the database is locked): migrate.ts:211-212, 291
OpenFail ==
  /\ pc = "open"
  /\ Return(Failed("DatabaseLockedError"), [loc EXCEPT !.failedAt = "open"])
  /\ fault' = fault \cup {"open"}
  /\ UNCHANGED <<stores, kv, dbExists, gen, req, pre, preS, budget, prev, cli, shown, norm>>

\* migrate.ts:231-234: the source array without the session is written back
WriteSource ==
  /\ pc = "writeSrc"
  /\ stores' = updateComposerData(stores, loc.src,
                                  RemoveAt(loc.sourceResult.composers, loc.sessionIndex),
                                  loc.sourceResult.isNewFormat, loc.sourceResult.rawData)
  /\ pc' = "writeDst"
  /\ UNCHANGED <<kv, dbExists, gen, req, idx, results, thrown, agg, loc, pre, preS, last,
                 fault, budget, prev, cli, shown, norm>>

\* the write of migrate.ts:234 throws
WriteSourceFail ==
  /\ pc = "writeSrc"
  /\ Return(Failed("SourceWriteError"), [loc EXCEPT !.failedAt = "writeSrc"])
  /\ fault' = fault \cup {"write"}
  /\ UNCHANGED <<stores, kv, dbExists, gen, req, pre, preS, budget, prev, cli, shown, norm>>

\* migrate.ts:236-253 (move) and 263-285 (copy): the destination array with the
\* session appended is written; the call returns success
WriteDest ==
  /\ pc = "writeDst"
  /\ LET destComposers == IF loc.destResult.ok THEN loc.destResult.composers ELSE <<>>
         session == IF req.mode = "move" THEN loc.session
                    ELSE CopySession(loc.session, loc.newSessionId)
         shape == destShape(loc.sourceResult, loc.destResult)
     IN stores' = updateComposerData(stores, loc.dst, AppendSession(destComposers, session),
                                     shape.isNewFormat, shape.rawData)
  /\ Return(Result(TRUE, req.sessionIds[idx], loc.sourceWorkspace, loc.normalizedDest,
                   req.mode, loc.newSessionId, "none", FALSE), loc)
  /\ UNCHANGED <<kv, dbExists, gen, req, pre, preS, fault, budget, prev, cli, shown, norm>>

WriteDestFailMut ==
  /\ pc = "writeDst"
  /\ Throw("DestWriteError", [loc EXCEPT !.failedAt = "writeDst"])
  /\ fault' = fault \cup {"write"}
  /\ UNCHANGED <<stores, kv, dbExists, gen, req, pre, preS, budget, prev, cli, shown, norm>>

WriteDestFailNotFound ==
  /\ pc = "writeDst"
  /\ Return(Failed("WorkspaceNotFoundError"), [loc EXCEPT !.failedAt = "writeDst"])
  /\ fault' = fault \cup {"write"}
  /\ UNCHANGED <<stores, kv, dbExists, gen, req, pre, preS, budget, prev, cli, shown, norm>>
\* the write of migrate.ts:239 or 270 throws
WriteDestFail ==
  /\ pc = "writeDst"
  /\ Return(Failed("DestWriteError"), [loc EXCEPT !.failedAt = "writeDst"])
  /\ fault' = fault \cup {"write"}
  /\ UNCHANGED <<stores, kv, dbExists, gen, req, pre, preS, budget, prev, cli, shown, norm>>

(***************************************************************************)
(* copyBubbleDataInGlobalStorage, migrate.ts:70-154.                       *)
(***************************************************************************)
newBubbleHeadersMut(oldBubbleHeaders, n) == oldBubbleHeaders
\* migrate.ts:98-110: one new bubble identifier per header, in header order
newBubbleHeaders(oldBubbleHeaders, n) ==
  [k \in 1..Len(oldBubbleHeaders) |-> generateSessionId(n + k)]

\* bubbleIdMap.set(header.bubbleId, newBubbleId): a later header of the same
\* bubble overwrites an earlier one
headerMap(oldBubbleHeaders, n) ==
  [h \in {oldBubbleHeaders[k] : k \in 1..Len(oldBubbleHeaders)} |->
     generateSessionId(n + (CHOOSE k \in 1..Len(oldBubbleHeaders) :
                              /\ oldBubbleHeaders[k] = h
                              /\ \A j \in (k + 1)..Len(oldBubbleHeaders) :
                                   oldBubbleHeaders[j] # h))]

insertOrReplaceOnly(table, key, value) == (key :> value)
insertOrReplaceMut(table, key, value) == table
\* INSERT OR REPLACE INTO cursorDiskKV (key, value)
insertOrReplace(table, key, value) == (key :> value) @@ table

\* migrate.ts:74-121: without a global database nothing is copied; otherwise the
\* composerData entry is copied under the new identifier with rewritten headers,
\* and the bubble rows of the old session are selected
CopyComposerData ==
  /\ pc = "copyComposer"
  /\ IF ~dbExists
     THEN /\ pc' = "writeDst"
          /\ UNCHANGED <<kv, gen, loc>>
     ELSE LET old == req.sessionIds[idx]
              has == old \in DOMAIN kv.composer
              headers == IF has THEN kv.composer[old].fullConversationHeadersOnly ELSE <<>>
              rows == SetToSeq(bubbleRows(kv, old))
          IN /\ kv' = IF has
                      THEN [kv EXCEPT !.composer =
                              insertOrReplace(kv.composer, loc.newSessionId,
                                Composer(loc.newSessionId, newBubbleHeaders(headers, gen)))]
                      ELSE kv
             /\ gen' = gen + Len(headers)
             /\ loc' = [loc EXCEPT !.bubbleIdMap = headerMap(headers, gen), !.pending = rows]
             /\ pc' = IF rows = <<>> THEN "writeDst" ELSE "copyBubbles"
  /\ UNCHANGED <<stores, dbExists, req, idx, results, thrown, agg, pre, preS, last, fault,
                 budget, prev, cli, shown, norm>>

\* migrate.ts:123-148, one row of the loop: the bubble is inserted under the new
\* session identifier and its new bubble identifier
CopyBubble ==
  /\ pc = "copyBubbles"
  /\ LET row == Head(loc.pending)
         oldBubbleId == row[2]
         known == oldBubbleId \in DOMAIN loc.bubbleIdMap
         newBubbleId == IF known THEN loc.bubbleIdMap[oldBubbleId]
                        ELSE generateSessionId(gen + 1)
     IN /\ kv' = [kv EXCEPT !.bubble =
                    insertOrReplace(kv.bubble, <<loc.newSessionId, newBubbleId>>,
                                    [kv.bubble[row] EXCEPT !.bubbleId = newBubbleId])]
        /\ gen' = IF known THEN gen ELSE gen + 1
        /\ loc' = [loc EXCEPT !.bubbleIdMap = (oldBubbleId :> newBubbleId) @@ @,
                              !.pending = Tail(@)]
        /\ pc' = IF Tail(loc.pending) = <<>> THEN "writeDst" ELSE "copyBubbles"
  /\ UNCHANGED <<stores, dbExists, req, idx, results, thrown, agg, pre, preS, last, fault,
                 budget, prev, cli, shown, norm>>

\* opening the global database or an INSERT throws: migrate.ts:81, 113, 145, 291
CopyFail ==
  /\ pc \in {"copyComposer", "copyBubbles"}
  /\ dbExists
  /\ Return(Failed("ContentError"), [loc EXCEPT !.failedAt = "content"])
  /\ fault' = fault \cup {"content"}
  /\ UNCHANGED <<stores, kv, dbExists, gen, req, pre, preS, budget, prev, cli, shown, norm>>

(***************************************************************************)
(* The top-level calls.                                                    *)
(***************************************************************************)
\* what every call does to the bookkeeping of the model
Begin(r, error) ==
  /\ pc = "idle"
  /\ budget > 0
  /\ budget' = budget - 1
  /\ req' = r
  /\ pre' = [stores |-> stores, kv |-> kv]
  /\ prev' = IF req.op = "session" /\ req.mode = "move" /\ results # <<>> /\ ~req.dryRun
                 /\ last.valid /\ last.result.success
              THEN [valid |-> TRUE, sessionId |-> req.sessionIds[1], src |-> last.loc.src,
                    dst |-> last.loc.dst, stores |-> pre.stores]
              ELSE NoPrev
  /\ last' = NoLast
  /\ loc' = NoLoc
  /\ preS' = pre'
  /\ results' = <<>>
  /\ thrown' = error
  /\ agg' = NoAgg
  /\ idx' = 1
  /\ UNCHANGED <<stores, kv, dbExists, gen, fault, cli, shown, norm>>

\* the identifiers a caller may name: the initial ones, one of no session, and
\* those of the copies made so far
KnownIds == SessionIds \cup {NoSuchId} \cup UNION {Ids(stores[w].composers) : w \in Ws}

Sources == {PA, PB, PC, PZ}

IdLists(n) == UNION {[1..k -> KnownIds] : k \in 1..n}

\* migrateSession(sessionId, options)
CallMigrateSession(dryRuns, dests) ==
  /\ pc = "idle" /\ budget > 0
  /\ \E id \in KnownIds, d \in dests, m \in {"move", "copy"}, dry \in dryRuns :
    /\ Begin([op |-> "session", sessionIds |-> <<id>>, source |-> NoPath, destination |-> d,
              mode |-> m, dryRun |-> dry, force |-> FALSE], "none")
    /\ pc' = "validate"

\* migrateSessions(options), migrate.ts:314-337; an empty list returns at once
CallMigrateSessions(dryRuns, dests, n) ==
  /\ pc = "idle" /\ budget > 0
  /\ \E ids \in IdLists(n) \cup {<<>>}, d \in dests, m \in {"move", "copy"}, dry \in dryRuns :
    /\ Begin([op |-> "sessions", sessionIds |-> ids, source |-> NoPath, destination |-> d,
              mode |-> m, dryRun |-> dry, force |-> FALSE], "none")
    /\ pc' = IF ids = <<>> THEN "idle" ELSE "validate"

\* sourceResult.composers.map((s) => s.composerId)
composerIds(composers) == [k \in 1..Len(composers) |-> composers[k].composerId]

destinationGuardMut(force, destResult) == FALSE
\* migrate.ts:381-390: the destination has sessions and force is not set
destinationGuard(force, destResult) ==
  ~force /\ destResult.ok /\ Len(destResult.composers) > 0

\* migrateWorkspace up to its call of migrateSessions, migrate.ts:348-409; the
\* result is the error thrown, or "none" with the identifiers to migrate
workspaceCheck(st, source, destination, force) ==
  LET normalizedSource == normalizePath(source)
      normalizedDest == normalizePath(destination)
      sourceInfo == findWorkspaceByPath(st, normalizedSource)
      destInfo == findWorkspaceByPath(st, normalizedDest)
      throw(e) == [error |-> e, sessionIds |-> <<>>]
  IN IF pathsEqual(normalizedSource, normalizedDest) THEN throw("SameWorkspaceError")
     ELSE IF sourceInfo = {} THEN throw("WorkspaceNotFoundError")
     ELSE IF destInfo = {} THEN throw("WorkspaceNotFoundError")
     ELSE LET sourceResult == getComposerData(st, CHOOSE w \in sourceInfo : TRUE)
              destResult == getComposerData(st, CHOOSE w \in destInfo : TRUE)
          IN IF ~sourceResult.ok \/ Len(sourceResult.composers) = 0
             THEN throw("NoSessionsFoundError")
             ELSE IF destinationGuard(force, destResult)
             THEN throw("DestinationHasSessionsError")
             ELSE [error |-> "none", sessionIds |-> composerIds(sourceResult.composers)]

\* migrateWorkspace(options)
CallMigrateWorkspace(dryRuns, dests) ==
  /\ pc = "idle" /\ budget > 0
  /\ \E src \in Sources, d \in dests, m \in {"move", "copy"}, dry \in dryRuns,
     force \in BOOLEAN :
    LET c == workspaceCheck(stores, src, d, force)
    IN /\ Begin([op |-> "workspace", sessionIds |-> c.sessionIds, source |-> normalizePath(src),
                 destination |-> normalizePath(d), mode |-> m, dryRun |-> dry,
                 force |-> force], c.error)
       /\ pc' = IF c.error = "none" THEN "validate" ELSE "idle"

\* PB written with ~ and a trailing backslash
TildeB == <<"~", "/", "b", "\\">>

\* the destinations a caller names: an existing workspace, written with a
\* trailing separator or with ~, and a path of no workspace
Destinations == {PB \o <<"/">>, TildeB, PZ}
SeqDestinations == {PA, PB \o <<"/">>}

Session ==
  \/ Validate
  \/ OpenAndRead
  \/ OpenFail
  \/ WriteSource
  \/ WriteDest
  \/ CopyComposerData
  \/ CopyBubble

WriteFault ==
  \/ WriteSourceFail
  \/ WriteDestFail
  \/ CopyFail

Next ==
  \/ CallMigrateSession(BOOLEAN, Destinations)
  \/ CallMigrateSessions(BOOLEAN, Destinations, MaxBatch)
  \/ CallMigrateWorkspace(BOOLEAN, Destinations)
  \/ Session
  \/ WriteFault

Spec == Init /\ [][Next]_vars

(***************************************************************************)
(* Sequences of calls in which no write fails: no dry runs, lists of at    *)
(* most two identifiers.                                                   *)
(***************************************************************************)
\* no global database, or session s1 with two bubbles
SeqKvChoices == {k \in KvChoices : Cardinality(DOMAIN k.store.bubble) # 1}

InitSeq == InitWith(MaxSeqCalls, SeqKvChoices)

NextSeq ==
  \/ CallMigrateSession({FALSE}, SeqDestinations)
  \/ CallMigrateSessions({FALSE}, SeqDestinations, MaxSeqBatch)
  \/ CallMigrateWorkspace({FALSE}, SeqDestinations)
  \/ Session

SpecSeq == InitSeq /\ [][NextSeq]_vars

(***************************************************************************)
(* Calls during which another process writes the source workspace.         *)
(***************************************************************************)
\* another process (Cursor itself) writes the source workspace's array without
\* the session, after migrateSession located the session (migrate.ts:178) and
\* before it reads the array (migrate.ts:216)
ConcurrentRemove ==
  /\ pc = "open"
  /\ LET composers == stores[loc.src].composers
         i == findIndex(composers, req.sessionIds[idx])
     IN /\ i # 0
        /\ stores' = [stores EXCEPT ![loc.src].composers = RemoveAt(composers, i)]
  /\ loc' = [loc EXCEPT !.raced = TRUE]
  /\ UNCHANGED <<kv, dbExists, gen, pc, req, idx, results, thrown, agg, pre, preS, last,
                 fault, budget, prev, cli, shown, norm>>

NextRace ==
  \/ CallMigrateSession(BOOLEAN, Destinations)
  \/ CallMigrateSessions(BOOLEAN, Destinations, MaxBatch)
  \/ CallMigrateWorkspace(BOOLEAN, Destinations)
  \/ Session
  \/ WriteFault
  \/ ConcurrentRemove

SpecRace == Init /\ [][NextRace]_vars
(***************************************************************************)
(* Identifier resolution: resolveSessionIdentifiers over listSessions.     *)
(* An input is a sequence of one-character strings.                        *)
(***************************************************************************)
\* longest input
MaxInput == 5

InputChars == {"0", "1", "2", "a", ",", " "}

Inputs == UNION {[1..n -> InputChars] : n \in 0..MaxInput}

IsDigit(c) == c \in {"0", "1", "2", "3", "4", "5", "6", "7", "8", "9"}

DigitValue(c) ==
  CASE c = "0" -> 0 [] c = "1" -> 1 [] c = "2" -> 2 [] c = "3" -> 3 [] c = "4" -> 4
    [] c = "5" -> 5 [] c = "6" -> 6 [] c = "7" -> 7 [] c = "8" -> 8 [] OTHER -> 9

\* /^\d+$/.test(part)
IsNumeric(part) == part # <<>> /\ \A i \in 1..Len(part) : IsDigit(part[i])

RECURSIVE parseInt(_)
\* parseInt of a string of decimal digits
parseInt(part) ==
  IF part = <<>> THEN 0
  ELSE 10 * parseInt(SubSeq(part, 1, Len(part) - 1)) + DigitValue(part[Len(part)])

RECURSIVE split(_, _)
\* String.prototype.split(sep): one part more than there are separators
split(input, sep) ==
  IF \E i \in 1..Len(input) : input[i] = sep
  THEN LET i == CHOOSE j \in 1..Len(input) :
                  input[j] = sep /\ \A k \in 1..(j - 1) : input[k] # sep
       IN <<SubSeq(input, 1, i - 1)>> \o split(SubSeq(input, i + 1, Len(input)), sep)
  ELSE <<input>>

RECURSIVE trim(_)
\* String.prototype.trim
trim(part) ==
  IF part # <<>> /\ part[1] = " " THEN trim(Tail(part))
  ELSE IF part # <<>> /\ part[Len(part)] = " " THEN trim(SubSeq(part, 1, Len(part) - 1))
  ELSE part

\* the creation time in a session's payload: initial session n was created at n
createdAt(session) == session.name[2]

RECURSIVE SortNewestFirst(_)
\* allSessions.sort((a, b) => b.createdAt - a.createdAt): stable
SortNewestFirst(sessions) ==
  IF sessions = <<>> THEN <<>>
  ELSE LET x == sessions[Len(sessions)]
           rest == SortNewestFirst(SubSeq(sessions, 1, Len(sessions) - 1))
           before == Cardinality({k \in 1..Len(rest) : createdAt(rest[k]) >= createdAt(x)})
       IN SubSeq(rest, 1, before) \o <<x>> \o SubSeq(rest, before + 1, Len(rest))

\* listSessions({all: true}): the sessions of every listed workspace, newest
\* first; the session at position i has index i
listSessions(st) ==
  LET of(w) == IF w \in findWorkspaces(st) THEN st[w].composers ELSE <<>>
  IN SortNewestFirst(of("w1") \o of("w2") \o of("w3"))

sessionAtMut(sessions, index) ==
  IF index + 1 \in 1..Len(sessions) THEN {sessions[index + 1]} ELSE {}
\* sessions.find(s => s.index === index): a set with at most one element
sessionAt(sessions, index) ==
  IF index \in 1..Len(sessions) THEN {sessions[index]} ELSE {}

\* resolveSessionIdentifiers(input): the identifiers, or the error thrown for
\* the first numeric part that is the index of no session
resolveSessionIdentifiers(st, input) ==
  LET raw == split(input, ",")
      parts == [k \in 1..Len(raw) |-> trim(raw[k])]
      sessions == listSessions(st)
      bad == {k \in 1..Len(parts) :
                IsNumeric(parts[k]) /\ sessionAt(sessions, parseInt(parts[k])) = {}}
  IN IF bad # {}
     THEN [error |-> "SessionNotFoundError",
           token |-> parts[CHOOSE k \in bad : \A j \in bad : k <= j], ids |-> <<>>]
     ELSE [error |-> "none", token |-> <<>>,
           ids |-> [k \in 1..Len(parts) |->
                      IF IsNumeric(parts[k])
                      THEN (CHOOSE s \in sessionAt(sessions, parseInt(parts[k])) : TRUE).composerId
                      ELSE parts[k]]]

\* the command line hands an input to resolveSessionIdentifiers
Resolve ==
  /\ ~cli.done
  /\ \E input \in Inputs :
       LET out == resolveSessionIdentifiers(stores, input)
       IN cli' = [done |-> TRUE, input |-> input, error |-> out.error,
                  token |-> out.token, ids |-> out.ids]
  /\ UNCHANGED <<stores, kv, dbExists, gen, pc, req, idx, results, thrown, agg, loc, pre,
                 preS, last, fault, budget, prev, shown, norm>>

InitResolve == InitWith(0, {[dbExists |-> FALSE, store |-> EmptyKv]})

NextResolve == Resolve

SpecResolve == InitResolve /\ [][NextResolve]_vars
(***************************************************************************)
(* The message type filter of the show command.                            *)
(***************************************************************************)
MaxMessages == 2
MaxTypes == 5

MESSAGE_TYPES == <<"user", "assistant", "tool", "thinking", "error">>

ToolMarker == <<"[", "T", "o", "o", "l", ":">>
ThinkingMarker == <<"[", "T", "h", "i", "n", "k", "i", "n", "g", "]">>
ErrorMarker == <<"[", "E", "r", "r", "o", "r", "]">>

\* String.prototype.startsWith
startsWith(content, marker) ==
  Len(content) >= Len(marker) /\ SubSeq(content, 1, Len(marker)) = marker

isToolCall(content) == startsWith(content, ToolMarker)
isThinking(content) == startsWith(content, ThinkingMarker)
isError(content) == startsWith(content, ErrorMarker)

getMessageType(message) ==
  IF message.role = "user" THEN "user"
  ELSE IF isToolCall(message.content) THEN "tool"
  ELSE IF isThinking(message.content) THEN "thinking"
  ELSE IF isError(message.content) THEN "error"
  ELSE "assistant"

\* types.includes(t)
includes(types, t) == \E k \in 1..Len(types) : types[k] = t

filterMessages(messages, types) ==
  IF Len(types) = 0 \/ Len(types) = Len(MESSAGE_TYPES) THEN messages
  ELSE SelectSeq(messages, LAMBDA m : includes(types, getMessageType(m)))

\* message contents: each marker at the start, a marker after other text, a
\* marker cut short, and plain text
Contents ==
  {ToolMarker \o <<" ", "r">>, ThinkingMarker, ErrorMarker \o <<"x">>,
   <<"x">> \o ToolMarker, <<"[", "T", "o", "o", "l">>, <<"H", "i">>}

Messages == [role : {"user", "assistant"}, content : Contents]

SeqsUpTo(S, n) == UNION {[1..k -> S] : k \in 0..n}

\* the show command hands the session's messages and the --only types to filterMessages
Filter ==
  /\ ~shown.done
  /\ \E messages \in SeqsUpTo(Messages, MaxMessages) :
       \E types \in SeqsUpTo({MESSAGE_TYPES[k] : k \in 1..Len(MESSAGE_TYPES)}, MaxTypes) :
         shown' = [done |-> TRUE, messages |-> messages, types |-> types,
                   out |-> filterMessages(messages, types)]
  /\ UNCHANGED <<stores, kv, dbExists, gen, pc, req, idx, results, thrown, agg, loc, pre,
                 preS, last, fault, budget, prev, cli, norm>>

InitFilter ==
  /\ InitWith(0, {[dbExists |-> FALSE, store |-> EmptyKv]})
  /\ stores = InitStores([s \in SessionIds |-> "w1"])

NextFilter == Filter

SpecFilter == InitFilter /\ [][NextFilter]_vars
(***************************************************************************)
(* normalizePath and pathsEqual over all short paths.                      *)
(***************************************************************************)
\* longest path, longest run of trailing separators added to it
MaxPath == 4
MaxTrail == 2

PathChars == {"a", "/", "\\", "~"}

Paths == UNION {[1..n -> PathChars] : n \in 1..MaxPath}

Trails == UNION {[1..n -> {"/", "\\"}] : n \in 0..MaxTrail}

\* a caller normalizes a path, normalizes the outcome again, and compares the
\* path with the same path followed by separators
Normalize ==
  /\ ~norm.done
  /\ \E path \in Paths, trail \in Trails :
       norm' = [done |-> TRUE, path |-> path, once |-> normalizePath(path),
                twice |-> normalizePath(normalizePath(path)), other |-> path \o trail,
                equal |-> pathsEqual(path, path \o trail)]
  /\ UNCHANGED <<stores, kv, dbExists, gen, pc, req, idx, results, thrown, agg, loc, pre,
                 preS, last, fault, budget, prev, cli, shown>>

InitNormalize ==
  /\ InitWith(0, {[dbExists |-> FALSE, store |-> EmptyKv]})
  /\ stores = InitStores([s \in SessionIds |-> "w1"])

NextNormalize == Normalize

SpecNormalize == InitNormalize /\ [][NextNormalize]_vars
(***************************************************************************)
(* Properties.                                                             *)
(***************************************************************************)
\* a migrateSession has just ended and nothing has been written since
Done == pc \in {"idle", "validate"} /\ last.valid

Count(st, w) == Len(st[w].composers)

\* how often the identifier occurs in all the arrays together
Occurrences(st, id) ==
  Cardinality(UNION {{<<w, k>> : k \in {j \in 1..Len(st[w].composers) :
                                          st[w].composers[j].composerId = id}} : w \in Ws})

IsPrefix(a, b) == Len(a) <= Len(b) /\ SubSeq(b, 1, Len(a)) = a

\* C1: a successful move (not a dry run) of record R from store A to store B
\* leaves A with one record fewer, B with one more, R in B and not in A.
MoveIsTransfer ==
  (Done /\ last.result.success /\ last.result.mode = "move" /\ ~last.result.dryRun) =>
     LET A == last.loc.src
         B == last.loc.dst
         R == last.result.sessionId
     IN /\ Count(stores, A) = Count(preS.stores, A) - 1
        /\ Count(stores, B) = Count(preS.stores, B) + 1
        /\ R \in Ids(stores[B].composers)
        /\ R \notin Ids(stores[A].composers)

MoveIsTransferWitness ==
  /\ Done /\ last.result.success /\ last.result.mode = "move" /\ ~last.result.dryRun
  /\ Count(preS.stores, last.loc.src) = 2
  /\ last.result.sessionId \in Ids(preS.stores[last.loc.src].composers)

\* C2: a copy never writes the source array, and a successful copy appends to
\* the destination array exactly one record, whose identifier is not R's.
CopyPreservesSource ==
  /\ (req.mode = "copy" /\ pc \in {"open", "copyComposer", "copyBubbles", "writeDst"}) =>
        stores[loc.src] = preS.stores[loc.src]
  /\ (Done /\ last.result.success /\ last.result.mode = "copy" /\ ~last.result.dryRun) =>
        LET A == last.loc.src
            B == last.loc.dst
            R == last.result.sessionId
            N == last.result.newSessionId
            before == preS.stores[B].composers
            after == stores[B].composers
        IN /\ stores[A] = preS.stores[A]
           /\ Len(after) = Len(before) + 1
           /\ IsPrefix(before, after)
           /\ after[Len(after)].composerId = N
           /\ N # R
           /\ N \notin Ids(before)

CopyPreservesSourceWitness ==
  /\ Done /\ last.result.success /\ last.result.mode = "copy" /\ ~last.result.dryRun
  /\ last.result.newSessionId \in Ids(stores[last.loc.dst].composers)
  /\ last.result.sessionId \in Ids(stores[last.loc.src].composers)

\* C3: during and after a call with dryRun = true, whether it returns or
\* throws, every store array and the global content store are as they were
\* when the call began.
DryRunIsNoOp ==
  (req.op # "none" /\ req.dryRun) => (stores = pre.stores /\ kv = pre.kv)

DryRunIsNoOpWitness ==
  /\ pc = "idle" /\ req.dryRun /\ req.op = "workspace" /\ req.mode = "move"
  /\ agg.valid /\ agg.success /\ agg.totalSessions = 2 /\ agg.dryRun

\* the migrateSession of identifier id to destination succeeds from state st
\* when no I/O fails
WouldSucceed(st, id, destination) ==
  /\ \E w \in Ws : /\ id \in Ids(st[w].composers)
                   /\ WsPath[w] # normalizePath(destination)
  /\ \E w \in Ws : /\ WsPath[w] = normalizePath(destination)
                   /\ Count(st, w) > 0

Distinct(ids) == \A i, j \in 1..Len(ids) : i # j => ids[i] # ids[j]

\* C4: migrateSessions returns one result per identifier, in input order; a
\* failure does not stop the loop; and with distinct identifiers and no I/O
\* error each identifier succeeds exactly if it would have succeeded alone.
BatchOrderAndIndependence ==
  req.op = "sessions" =>
    /\ Len(results) <= Len(req.sessionIds)
    /\ \A i \in 1..Len(results) : results[i].sessionId = req.sessionIds[i]
    /\ pc = "idle" => /\ Len(results) = Len(req.sessionIds)
                      /\ thrown = "none"
    /\ (pc = "idle" /\ fault = {} /\ Distinct(req.sessionIds)) =>
          \A i \in 1..Len(results) :
            results[i].success <=> WouldSucceed(pre.stores, req.sessionIds[i], req.destination)

BatchOrderAndIndependenceWitness ==
  /\ pc = "idle" /\ req.op = "sessions" /\ ~req.dryRun /\ Len(results) = 3
  /\ results[1].success
  /\ ~results[2].success /\ results[2].error = "SessionNotFoundError"
  /\ results[3].success

\* C5: while no write has failed, between calls every initial record and
\* every copy is in exactly one array, exactly once; so records with the same
\* payload (an original and its copies) have different identifiers.
OneLocationPerRecord ==
  (pc = "idle" /\ "write" \notin fault /\ "content" \notin fault) =>
    /\ \A id \in SessionIds : Occurrences(stores, id) = 1
    /\ \A w \in Ws : \A k \in 1..Len(stores[w].composers) :
         Occurrences(stores, stores[w].composers[k].composerId) = 1

OneLocationPerRecordWitness ==
  /\ pc = "idle" /\ budget = 0 /\ fault = {}
  /\ \E w1, w2 \in Ws :
       /\ w1 # w2
       /\ \E j \in 1..Len(stores[w1].composers), k \in 1..Len(stores[w2].composers) :
            /\ stores[w1].composers[j].name = stores[w2].composers[k].name
            /\ stores[w1].composers[j].composerId[1] = "g"
            /\ stores[w2].composers[k].composerId[1] = "g"

\* C6: when a move's source write succeeded and its destination write failed,
\* migrateSession returns a failed result with an error instead of throwing,
\* the record is in neither array, and the source array stays as written.
PartialMoveFailure ==
  (pc \in {"idle", "validate"} /\ req.mode = "move" /\ loc.failedAt = "writeDst") =>
     LET A == loc.src
         B == loc.dst
         R == loc.session.composerId
     IN /\ thrown = "none"
        /\ last.valid /\ results # <<>> /\ results[Len(results)] = last.result
        /\ last.result.sessionId = R
        /\ ~last.result.success /\ last.result.error = "DestWriteError"
        /\ R \notin Ids(stores[A].composers)
        /\ R \notin Ids(stores[B].composers)
        /\ Count(stores, A) = Count(preS.stores, A) - 1
        /\ stores[B] = preS.stores[B]

PartialMoveFailureWitness ==
  /\ pc = "idle" /\ req.op = "session" /\ req.mode = "move"
  /\ loc.failedAt = "writeDst"
  /\ loc.session.composerId \in Ids(preS.stores[loc.src].composers)

\* source and destination of the running migrateWorkspace are two different
\* workspaces that both held records when the call began
WorkspacePair(A, B) ==
  /\ req.op = "workspace"
  /\ A # B
  /\ WsPath[A] = req.source /\ WsPath[B] = req.destination
  /\ Count(pre.stores, A) > 0 /\ Count(pre.stores, B) > 0

\* C7: migrateWorkspace from a store A that holds records to a different store
\* B that holds records, without force, throws DestinationHasSessionsError and
\* changes no array and no content key.
DestinationGuard ==
  \A A, B \in Ws :
    (WorkspacePair(A, B) /\ ~req.force) =>
       /\ pc = "idle"
       /\ thrown = "DestinationHasSessionsError"
       /\ results = <<>>
       /\ stores = pre.stores
       /\ kv = pre.kv

DestinationGuardWitness ==
  /\ \E A, B \in Ws : WorkspacePair(A, B) /\ ~req.force
  /\ ~req.dryRun

\* the copies of the records cs: same payload, identifiers generated and not in old
CopiesOf(cs, news, old) ==
  /\ Len(news) = Len(cs)
  /\ \A k \in 1..Len(cs) :
       /\ news[k].name = cs[k].name
       /\ news[k].composerId[1] = "g"
       /\ news[k].composerId \notin old
  /\ \A j, k \in 1..Len(news) : j # k => news[j].composerId # news[k].composerId

\* C8: migrateWorkspace with force from a store A to a different store B that
\* already holds records never removes or changes a record B held; when no I/O
\* fails it succeeds and B ends with its old records followed by A's records
\* (move) or by one copy of each (copy).
AdditiveMerge ==
  \A A, B \in Ws :
    (WorkspacePair(A, B) /\ req.force /\ ~req.dryRun) =>
       /\ thrown = "none"
       /\ IsPrefix(pre.stores[B].composers, stores[B].composers)
       /\ (pc = "idle" /\ fault = {}) =>
            LET old == pre.stores[B].composers
                now == stores[B].composers
                added == SubSeq(now, Len(old) + 1, Len(now))
            IN /\ agg.valid /\ agg.success
               /\ agg.totalSessions = Count(pre.stores, A)
               /\ IF req.mode = "move"
                  THEN added = pre.stores[A].composers /\ Count(stores, A) = 0
                  ELSE /\ CopiesOf(pre.stores[A].composers, added,
                                   UNION {Ids(pre.stores[w].composers) : w \in Ws})
                       /\ stores[A] = pre.stores[A]

AdditiveMergeWitness ==
  /\ pc = "idle" /\ fault = {} /\ req.mode = "move"
  /\ \E A, B \in Ws : /\ WorkspacePair(A, B) /\ req.force /\ ~req.dryRun
                      /\ Count(stores, B) = 2

\* C9: after a successful migrateSession(R, B, move) from store A, a
\* migrateSession(R, A, move) in which no I/O fails succeeds and gives A and B
\* the record counts they had before the first move, with R in A and not in B.
RoundTrip ==
  (pc = "idle" /\ prev.valid /\ req.op = "session" /\ req.mode = "move"
     /\ req.sessionIds[1] = prev.sessionId
     /\ normalizePath(req.destination) = WsPath[prev.src] /\ fault = {}) =>
       /\ thrown = "none"
       /\ results # <<>> /\ results[1].success
       /\ Count(stores, prev.src) = Count(prev.stores, prev.src)
       /\ Count(stores, prev.dst) = Count(prev.stores, prev.dst)
       /\ prev.sessionId \in Ids(stores[prev.src].composers)
       /\ prev.sessionId \notin Ids(stores[prev.dst].composers)

\* the locals of the migrateSession that is running or has just ended
CurLoc == IF pc \in {"idle", "validate"} THEN last.loc ELSE loc

\* C10: in copy mode, whenever the destination array holds the new record N,
\* the composerData entry of the original (if any) and every bubble of the
\* original have been duplicated under N.
CopyValidity ==
  LET R == CurLoc.session.composerId
      N == CurLoc.newSessionId
  IN (req.mode = "copy" /\ N # NoSuchId /\ N \in Ids(stores[CurLoc.dst].composers)) =>
       /\ R \in DOMAIN kv.composer => N \in DOMAIN kv.composer
       /\ \A key \in bubbleRows(kv, R) :
            /\ key[2] \in DOMAIN CurLoc.bubbleIdMap
            /\ <<N, CurLoc.bubbleIdMap[key[2]]>> \in DOMAIN kv.bubble
            /\ kv.bubble[<<N, CurLoc.bubbleIdMap[key[2]]>>].text = kv.bubble[key].text

CopyValidityWitness ==
  /\ pc = "idle" /\ req.mode = "copy" /\ last.valid /\ last.result.success
  /\ last.result.newSessionId \in Ids(stores[last.loc.dst].composers)
  /\ Cardinality(bubbleRows(kv, last.result.sessionId)) = 2
  /\ Cardinality(bubbleRows(kv, last.result.newSessionId)) = 2

\* a copy of R to N has just succeeded and R had a composerData entry
CopiedWithHeaders ==
  /\ Done /\ last.result.success /\ last.result.mode = "copy" /\ ~last.result.dryRun
  /\ last.result.sessionId \in DOMAIN preS.kv.composer

\* the header list of N has m(h) where that of R has h; m is injective on the
\* headers and m(h) # h; for every header in need, N:m(h) holds the content of R:h
HeadersRewritten(need) ==
  LET R == last.result.sessionId
      N == last.result.newSessionId
      m == last.loc.bubbleIdMap
      old == preS.kv.composer[R].fullConversationHeadersOnly
  IN /\ N \in DOMAIN kv.composer
     /\ kv.composer[N].composerId = N
     /\ LET new == kv.composer[N].fullConversationHeadersOnly
        IN /\ Len(new) = Len(old)
           /\ \A k \in 1..Len(old) :
                /\ old[k] \in DOMAIN m
                /\ new[k] = m[old[k]]
                /\ m[old[k]] # old[k]
                /\ m[old[k]][1] = "g"
           /\ \A j, k \in 1..Len(old) : old[j] # old[k] => new[j] # new[k]
           /\ \A k \in need :
                /\ <<N, new[k]>> \in DOMAIN kv.bubble
                /\ kv.bubble[<<N, new[k]>>].bubbleId = new[k]
                /\ kv.bubble[<<N, new[k]>>].text = preS.kv.bubble[<<R, old[k]>>].text
     /\ bubbleRows(kv, N) \cap bubbleRows(kv, R) = {}

ValidationErrors ==
  {"SessionNotFoundError", "WorkspaceNotFoundError", "SameWorkspaceError",
   "NoSessionsFoundError", "DestinationHasSessionsError"}

\* C12: when a call throws a validation error nothing has been written since
\* the call began, and when a migrateSession of a batch ends with a validation
\* error nothing has been written since that migrateSession began.
ValidationPrecedesMutation ==
  /\ (pc = "idle" /\ thrown \in ValidationErrors) =>
        (stores = pre.stores /\ kv = pre.kv)
  /\ (Done /\ last.result.error \in ValidationErrors) =>
        (stores = preS.stores /\ kv = preS.kv)

ValidationPrecedesMutationWitness ==
  /\ pc = "idle" /\ req.op = "sessions" /\ ~req.dryRun /\ Len(results) = 2
  /\ results[1].success
  /\ results[2].error = "SameWorkspaceError"
  /\ stores # pre.stores

\* C13: in a batch, when opening, reading, writing or replicating fails for
\* record i, nothing is thrown, result i is a failure carrying the error, and
\* the loop goes on to record i+1 if there is one.
MutationErrorsAreResults ==
  (req.op \in {"sessions", "workspace"} /\ pc \in {"idle", "validate"}
     /\ loc.failedAt # "none") =>
       /\ thrown = "none"
       /\ last.valid /\ results # <<>> /\ results[Len(results)] = last.result
       /\ ~last.result.success /\ last.result.error # "none"
       /\ last.result.sessionId = req.sessionIds[Len(results)]
       /\ pc = (IF Len(results) < Len(req.sessionIds) THEN "validate" ELSE "idle")
       /\ pc = "validate" => idx = Len(results) + 1

MutationErrorsAreResultsWitness ==
  /\ pc = "idle" /\ req.op = "sessions" /\ ~req.dryRun /\ Len(results) = 2
  /\ results[1].error = "DatabaseLockedError"
  /\ results[2].success

\* C14: every WorkspaceMigrationResult has totalSessions = length(results) =
\* successCount + failureCount, success exactly when every result succeeded
\* (failureCount = 0), and result k is for the k-th record of the source array.
AggregateConsistency ==
  agg.valid =>
    /\ agg.totalSessions = Len(agg.results)
    /\ agg.totalSessions = agg.successCount + agg.failureCount
    /\ agg.success <=> (agg.failureCount = 0)
    /\ agg.success <=> (\A k \in 1..Len(agg.results) : agg.results[k].success)
    /\ agg.successCount = Cardinality({k \in 1..Len(agg.results) : agg.results[k].success})
    /\ \E A \in Ws :
         /\ WsPath[A] = agg.source
         /\ Len(agg.results) = Count(pre.stores, A)
         /\ \A k \in 1..Len(agg.results) :
              agg.results[k].sessionId = pre.stores[A].composers[k].composerId

AggregateConsistencyWitness ==
  /\ agg.valid /\ ~agg.dryRun /\ ~agg.success
  /\ agg.totalSessions = 2 /\ agg.successCount = 1 /\ agg.failureCount = 1

\* C15: a migrateWorkspace that passes validation migrates exactly the records
\* of the array of the store whose path is the normalized source, in array
\* order, each taken from that store; no array but the source's and the
\* destination's changes; after a move in which all succeed the source array
\* is empty.
WorkspaceTouchesSource ==
  (req.op = "workspace" /\ thrown = "none") =>
    \E A, B \in Ws :
      /\ WsPath[A] = req.source /\ WsPath[B] = req.destination
      /\ req.sessionIds = composerIds(pre.stores[A].composers)
      /\ \A w \in Ws \ {A, B} : stores[w] = pre.stores[w]
      /\ \A k \in 1..Len(results) :
           results[k].success => results[k].sourceWorkspace = WsPath[A]
      /\ (pc = "idle" /\ agg.success /\ req.mode = "move" /\ ~req.dryRun) =>
            /\ Count(stores, A) = 0
            /\ Ids(pre.stores[A].composers) \subseteq Ids(stores[B].composers)

WorkspaceTouchesSourceWitness ==
  /\ pc = "idle" /\ req.op = "workspace" /\ req.mode = "move" /\ ~req.dryRun
  /\ agg.valid /\ agg.success
  /\ req.source = PC
  /\ Count(stores, "w3") = 0 /\ Count(pre.stores, "w3") > 0
  /\ Count(stores, "w1") > 0

RECURSIVE StripSeparators(_)
\* the path without its trailing separators
StripSeparators(p) ==
  IF Len(p) > 1 /\ p[Len(p)] \in {"/", "\\"}
  THEN StripSeparators(SubSeq(p, 1, Len(p) - 1)) ELSE p

\* what a path denotes: ~ expanded, trailing separators removed
Canon(p) == StripSeparators(IF p # <<>> /\ p[1] = "~" THEN HomeDir \o Tail(p) ELSE p)

\* the store that held the record when the migrateSession began is the one the
\* destination denotes
SameLocationAs(st, id) ==
  \E w \in Ws : id \in Ids(st[w].composers) /\ WsPath[w] = Canon(req.destination)

\* C16: a migrateSession whose destination denotes the store that holds the
\* record fails with SameWorkspaceError and writes nothing (thrown by a single
\* call, a failed result in a batch); a migrateWorkspace whose source and
\* destination denote the same path throws SameWorkspaceError and writes nothing.
SameLocation ==
  /\ (pc = "idle" /\ req.op = "session" /\ SameLocationAs(pre.stores, req.sessionIds[1])) =>
        /\ thrown = "SameWorkspaceError"
        /\ results = <<>>
        /\ stores = pre.stores /\ kv = pre.kv
  /\ (Done /\ req.op = "sessions" /\ SameLocationAs(preS.stores, last.result.sessionId)) =>
        /\ ~last.result.success /\ last.result.error = "SameWorkspaceError"
        /\ stores = preS.stores /\ kv = preS.kv
  /\ (req.op = "workspace" /\ Canon(req.source) = Canon(req.destination)) =>
        /\ pc = "idle" /\ thrown = "SameWorkspaceError"
        /\ results = <<>>
        /\ stores = pre.stores /\ kv = pre.kv

SameLocationWitness ==
  /\ pc = "idle" /\ req.op = "session" /\ thrown = "SameWorkspaceError"
  /\ req.destination = TildeB
  /\ req.sessionIds[1] \in Ids(stores["w2"].composers)

\* the record with identifier id in the arrays of st
RecordOf(st, id) ==
  CHOOSE r \in UNION {{st[w].composers[k] : k \in 1..Len(st[w].composers)} : w \in Ws} :
    r.composerId = id

\* C17: after a successful move the last record of the destination array is
\* the object the source array held; after a successful copy it is that object
\* with the generated identifier in its identifier field and nothing else changed.
PayloadPreserved ==
  (Done /\ last.result.success /\ ~last.result.dryRun) =>
     LET R == last.result.sessionId
         N == last.result.newSessionId
         orig == RecordOf(preS.stores, R)
         after == stores[last.loc.dst].composers
         new == after[Len(after)]
     IN /\ orig \in {preS.stores[last.loc.src].composers[k] :
                       k \in 1..Len(preS.stores[last.loc.src].composers)}
        /\ IF last.result.mode = "move"
           THEN new = orig
           ELSE /\ new.composerId = N /\ N # R
                /\ [new EXCEPT !.composerId = R] = orig

PayloadPreservedWitness ==
  /\ Done /\ last.result.success /\ ~last.result.dryRun /\ last.result.mode = "copy"
  /\ last.result.sessionId = <<"s", 2>>
  /\ \E k \in 1..Len(stores[last.loc.dst].composers) :
       /\ stores[last.loc.dst].composers[k].name = <<"s", 2>>
       /\ stores[last.loc.dst].composers[k].composerId[1] = "g"

\* C18: during and after a call in copy mode, whether it succeeds or fails,
\* every key the content store held when the call began is still there with
\* its value, and every key added is made of generated identifiers only.
CopyKeepsContent ==
  (req.op # "none" /\ req.mode = "copy") =>
    /\ \A id \in DOMAIN pre.kv.composer :
         id \in DOMAIN kv.composer /\ kv.composer[id] = pre.kv.composer[id]
    /\ \A key \in DOMAIN pre.kv.bubble :
         key \in DOMAIN kv.bubble /\ kv.bubble[key] = pre.kv.bubble[key]
    /\ \A id \in DOMAIN kv.composer \ DOMAIN pre.kv.composer : id[1] = "g"
    /\ \A key \in DOMAIN kv.bubble \ DOMAIN pre.kv.bubble :
         key[1][1] = "g" /\ key[2][1] = "g"

CopyKeepsContentWitness ==
  /\ pc = "idle" /\ req.mode = "copy" /\ loc.failedAt = "content"
  /\ DOMAIN kv.bubble # DOMAIN pre.kv.bubble
  /\ DOMAIN kv.composer # DOMAIN pre.kv.composer

\* the tokens of an input: its comma-separated parts without surrounding blanks
Tokens(input) == [k \in 1..Len(split(input, ",")) |-> trim(split(input, ",")[k])]

\* the decimal value of a token of digits
Value(token) ==
  LET F[n \in 0..Len(token)] == IF n = 0 THEN 0 ELSE 10 * F[n - 1] + DigitValue(token[n])
  IN F[Len(token)]

\* the full listing: every session, newest first
Listing == listSessions(stores)

OutOfRange(token) == IsNumeric(token) /\ Value(token) \notin 1..Len(Listing)

FailureContext ==
  (Done /\ ~last.result.success) =>
     /\ last.result.sessionId = req.sessionIds[Len(results)]
     /\ Canon(last.result.destinationWorkspace) = Canon(req.destination)
     /\ \A w \in Ws :
          last.result.sessionId \in Ids(preS.stores[w].composers) =>
             last.result.sourceWorkspace = WsPath[w]

\* C21: a result carries newSessionId exactly when it is a successful copy that
\* is no dry run; the identifier is that of the record appended to the
\* destination array and the one under which the content was duplicated.
NewIdReporting ==
  /\ \A k \in 1..Len(results) :
       (results[k].newSessionId # NoSuchId) <=>
          (results[k].success /\ results[k].mode = "copy" /\ ~results[k].dryRun)
  /\ (Done /\ last.result.newSessionId # NoSuchId) =>
        LET R == last.result.sessionId
            N == last.result.newSessionId
            after == stores[last.loc.dst].composers
        IN /\ after[Len(after)].composerId = N
           /\ N \notin Ids(preS.stores[last.loc.dst].composers)
           /\ R \in DOMAIN preS.kv.composer =>
                (N \in DOMAIN kv.composer /\ kv.composer[N].composerId = N)
           /\ \A key \in DOMAIN kv.bubble \ DOMAIN preS.kv.bubble : key[1] = N

NewIdReportingWitness ==
  /\ pc = "idle" /\ req.op = "sessions" /\ req.mode = "copy" /\ ~req.dryRun
  /\ Len(results) = 2
  /\ results[1].newSessionId # NoSuchId
  /\ ~results[2].success /\ results[2].error = "ContentError"

\* the type the specification gives a message
TypeOf(m) ==
  IF m.role = "user" THEN "user"
  ELSE IF IsPrefix(ToolMarker, m.content) THEN "tool"
  ELSE IF IsPrefix(ThinkingMarker, m.content) THEN "thinking"
  ELSE IF IsPrefix(ErrorMarker, m.content) THEN "error"
  ELSE "assistant"

\* C23: filterMessages(messages, types) returns, in their original order, exactly
\* the messages whose type (user by role; else tool, thinking or error by the
\* marker the content starts with; else assistant) is among types, and all the
\* messages when types is empty or names all five types.
FilterMessages ==
  shown.done =>
    LET named == {shown.types[k] : k \in 1..Len(shown.types)}
        all == {MESSAGE_TYPES[k] : k \in 1..Len(MESSAGE_TYPES)}
    IN IF shown.types = <<>> \/ named = all
       THEN shown.out = shown.messages
       ELSE shown.out = SelectSeq(shown.messages, LAMBDA m : TypeOf(m) \in named)

\* C24: when the record located for a migrateSession has left the source array
\* by the time the array is read, the call ends with a failed result that is
\* not the record-not-found error, it does not throw, and neither the arrays
\* nor the content store are written.
RaceIsFailure ==
  (pc \in {"idle", "validate"} /\ loc.raced) =>
    /\ last.valid /\ last.loc = loc
    /\ ~last.result.success
    /\ last.result.error # "SessionNotFoundError"
    /\ kv = preS.kv
    /\ \A w \in Ws :
         stores[w].composers =
           IF w = loc.src
           THEN SelectSeq(preS.stores[w].composers,
                          LAMBDA s : s.composerId # last.result.sessionId)
           ELSE preS.stores[w].composers

\* C25: every array write of migrateSession to a store whose array existed
\* passes back the format flag and the raw data read from that same store, so
\* the store's shape after a move or copy is its shape before; the source's
\* shape is never applied to a destination that already had an array.
ShapePreserved ==
  \A w \in Ws :
    pre.stores[w].exists =>
      /\ stores[w].exists
      /\ stores[w].isNewFormat = pre.stores[w].isNewFormat
      /\ stores[w].rawData = pre.stores[w].rawData

ShapePreservedWitness ==
  /\ Done /\ last.result.success /\ ~last.result.dryRun /\ last.result.mode = "move"
  /\ pre.stores[last.loc.src].isNewFormat # pre.stores[last.loc.dst].isNewFormat
  /\ pre.stores[last.loc.dst].exists
  /\ stores[last.loc.src].composers # pre.stores[last.loc.src].composers
  /\ stores[last.loc.dst].composers # pre.stores[last.loc.dst].composers

\* C26: when the destination store exists but has no array, a move or copy of
\* a located record into it succeeds and the destination array then holds
\* exactly that one record; a migrateWorkspace without force into such a
\* destination passes the guard and succeeds.
EmptyDestination ==
  \A B \in Ws :
    (/\ pc = "idle" /\ ~req.dryRun /\ fault = {}
     /\ WsPath[B] = Canon(req.destination) /\ ~pre.stores[B].exists) =>
       /\ (/\ req.op = "session"
           /\ \E A \in Ws : req.sessionIds[1] \in Ids(pre.stores[A].composers)) =>
             /\ thrown = "none"
             /\ Len(results) = 1 /\ results[1].success
             /\ Len(stores[B].composers) = 1
             /\ stores[B].composers[1].composerId =
                  IF req.mode = "move" THEN req.sessionIds[1] ELSE results[1].newSessionId
       /\ (/\ req.op = "workspace" /\ ~req.force
           /\ \E A \in Ws : WsPath[A] = req.source /\ Count(pre.stores, A) > 0) =>
             /\ thrown = "none"
             /\ agg.valid /\ agg.success

\* the records some array held when the call began that no array holds now
Missing == {id \in SessionIds : Occurrences(pre.stores, id) > 0 /\ Occurrences(stores, id) = 0}

\* C27: in a move batch the source array of a record is written only after
\* every earlier record of the batch has its result, and as long as no store
\* write has failed at most one record, the one being moved, is absent from
\* both its source array and the destination array.
OneInFlight ==
  (req.op \in {"sessions", "workspace"} /\ req.mode = "move") =>
    /\ (pc \in {"open", "writeSrc", "writeDst"}) => Len(results) = idx - 1
    /\ (fault = {}) =>
         /\ Cardinality(Missing) <= 1
         /\ Missing \subseteq (IF pc = "writeDst" THEN {req.sessionIds[idx]} ELSE {})

OneInFlightWitness ==
  /\ req.op = "sessions" /\ req.mode = "move" /\ fault = {}
  /\ pc = "writeDst" /\ idx = 2
  /\ results[1].success
  /\ Missing = {req.sessionIds[2]}
  /\ req.sessionIds[1] \in Ids(stores[loc.dst].composers)

\* C28: normalizePath(normalizePath(p)) = normalizePath(p), the result ends
\* with neither "/" nor "\" unless it is a single character, and pathsEqual
\* holds of two paths that differ only in trailing separators.
NormalizeIdempotent ==
  norm.done =>
    /\ norm.twice = norm.once
    /\ Len(norm.once) > 1 => norm.once[Len(norm.once)] \notin {"/", "\\"}
    /\ norm.equal

\* positions i < j of the list hold the same identifier, i being its first
Repeated(ids, i, j) ==
  /\ i < j /\ ids[i] = ids[j]
  /\ \A k \in 1..(i - 1) : ids[k] # ids[i]

\* C29: when migrateSessions is given an identifier R twice, R held by a store A
\* and the destination B a different store that the lookup finds, and no I/O
\* fails, then in move mode the first occurrence succeeds, the second fails,
\* and afterwards R is once in B's array and not in A's; in copy mode both
\* occurrences succeed, each with its own new identifier, both copies are in
\* B's array and R stays in A's.
DuplicateIdentifiers ==
  (pc = "idle" /\ req.op = "sessions" /\ ~req.dryRun /\ fault = {}) =>
    \A i, j \in 1..Len(req.sessionIds) :
      (Repeated(req.sessionIds, i, j)
         /\ WouldSucceed(pre.stores, req.sessionIds[i], req.destination)) =>
        LET R == req.sessionIds[i]
            A == CHOOSE w \in Ws : R \in Ids(pre.stores[w].composers)
            B == CHOOSE w \in Ws : WsPath[w] = Canon(req.destination)
        IN /\ Len(results) = Len(req.sessionIds)
           /\ results[i].success
           /\ IF req.mode = "move"
              THEN /\ ~results[j].success
                   /\ Occurrences(stores, R) = 1
                   /\ R \in Ids(stores[B].composers)
                   /\ R \notin Ids(stores[A].composers)
              ELSE /\ results[j].success
                   /\ results[i].newSessionId # results[j].newSessionId
                   /\ {results[i].newSessionId, results[j].newSessionId}
                        \subseteq Ids(stores[B].composers)
                   /\ {results[i].newSessionId, results[j].newSessionId}
                        \cap Ids(pre.stores[B].composers) = {}
                   /\ R \in Ids(stores[A].composers)

DuplicateIdentifiersWitness ==
  /\ pc = "idle" /\ req.op = "sessions" /\ ~req.dryRun /\ fault = {}
  /\ req.mode = "move"
  /\ Len(req.sessionIds) = 2 /\ req.sessionIds[1] = req.sessionIds[2]
  /\ results[1].success
  /\ ~results[2].success /\ results[2].error = "SameWorkspaceError"

\* C30: once a migrateSession in copy mode has returned, the content store
\* holds a composerData entry or a bubble entry under a generated identifier N
\* only if some store's array holds a record with identifier N; a failed copy
\* leaves no content behind.
NoOrphanedCopies ==
  (Done /\ last.result.mode = "copy") =>
    \A n \in 1..gen :
      LET N == generateSessionId(n)
      IN (N \in DOMAIN kv.composer \/ bubbleRows(kv, N) # {}) =>
           \E w \in Ws : N \in Ids(stores[w].composers)

====
